---- MODULE Spec2Model ----
(***************************************************************************)
(* A model of the CSV -> Parquet pipeline of kranken-api-downloader:       *)
(*   src/kraken-pipeline.py   main, migrate_existing, restore_copied,      *)
(*                            process_csvs                                 *)
(*   src/csv_to_parquet.py    main, restore_copied_files                   *)
(* The input tree and the Parquet output tree are the state; every file    *)
(* system call that changes one of them is one step, so that a process     *)
(* killed between two calls leaves the state the real process would leave. *)
(***************************************************************************)
EXTENDS Integers, Sequences, FiniteSets, TLC

\* ------------------------------------------------------------------ bounds
\* Number of to_parquet calls that return in one behaviour.
MaxWrites == 3
\* Number of abnormal events in one behaviour: an I/O call (to_parquet,
\* rename, unlink) that raises, or the running script being killed from outside.
MaxFaults == 1

\* ------------------------------------------------------------ path strings
\* A path segment is a sequence of characters, a directory a sequence of
\* segments starting with the input root, a file name a sequence of the
\* dot-separated parts of the name ("a.csv.copied" is <<"a","csv","copied">>).
Digits == {"0", "1", "2", "3", "4", "5", "6", "7", "8", "9"}

InputRoot == <<"i", "n">>
Dir2301 == <<InputRoot, <<"2", "0", "2", "3">>, <<"0", "1">> >>
\* The directory of another month, and one with no digits in its path.
Dir2302 == <<InputRoot, <<"2", "0", "2", "3">>, <<"0", "2">> >>
DirMisc == <<InputRoot, <<"m", "i", "s", "c">> >>

RECURSIVE Join(_)
\* str(path): the segments joined by "/".
Join(segs) ==
    IF segs = <<>> THEN <<>>
    ELSE IF Len(segs) = 1 THEN segs[1]
    ELSE segs[1] \o <<"/">> \o Join(Tail(segs))

AllDigits(s, i, n) == \A k \in i..(i + n - 1) : s[k] \in Digits

Min(S) == CHOOSE x \in S : \A y \in S : x <= y

\* re.search(r"(\d{4})/(\d{2})", s): the positions where the pattern matches.
YearMonthMatches(s) ==
    {i \in 1..(Len(s) - 6) :
        AllDigits(s, i, 4) /\ s[i + 4] = "/" /\ AllDigits(s, i + 5, 2)}

\* re.search(r"(\d{4})", s): the positions where the pattern matches.
YearMatches(s) == {i \in 1..(Len(s) - 3) : AllDigits(s, i, 4)}

\* ------------------------------------------------------------- file names
Last(s) == s[Len(s)]
Front(s) == SubSeq(s, 1, Len(s) - 1)

\* PurePath.suffix: "." + the last part, when the name has a dot in it.
Suffix(name) == IF Len(name) >= 2 THEN <<Last(name)>> ELSE <<>>

\* PurePath.with_suffix(suffix): the last suffix is REPLACED by `suffix`.
WithSuffix(name, suffix) ==
    IF Len(name) >= 2 THEN Front(name) \o suffix ELSE name \o suffix

\* A glob that also takes names with ".csv" inside them ("*.csv*").
MatchesCsvAnywhere(name) == \E i \in 2..Len(name) : name[i] = "csv"

\* fnmatch of the name against "*.csv".
MatchesCsv(name) == Len(name) >= 2 /\ Last(name) = "csv"

\* fnmatch of the name against "*.csv.copied".
MatchesCsvCopied(name) ==
    Len(name) >= 3 /\ Last(name) = "copied" /\ name[Len(name) - 1] = "csv"

\* str.endswith(".copied")
EndsWithCopied(name) == Len(name) >= 2 /\ Last(name) = "copied"

\* The errored form written by migrate_existing: "....csv.error".
EndsWithCsvError(name) ==
    Len(name) >= 3 /\ Last(name) = "error" /\ name[Len(name) - 1] = "csv"

\* csv_file.with_suffix(".copied"): the suffix replaced, not extended.
CopiedNameReplacesSuffix(name) == WithSuffix(name, <<"copied">>)

\* csv_file.with_suffix(csv_file.suffix + ".copied")
CopiedName(name) == WithSuffix(name, Suffix(name) \o <<"copied">>)

\* The error branch renaming to the absorbed name instead of the errored one.
ErrorNameAsCopied(name) == WithSuffix(name, Suffix(name) \o <<"copied">>)

\* csv_file.with_suffix(csv_file.suffix + ".error")
ErrorName(name) == WithSuffix(name, Suffix(name) \o <<"error">>)

\* restore_copied of kraken-pipeline.py: f.with_suffix(".csv")
RestoredName(name) == WithSuffix(name, <<"csv">>)

\* csv_to_parquet.py: csv_file.with_name(csv_file.name + ".copied")
CopiedMarker(name) == name \o <<"copied">>

\* csv_to_parquet.py: copied_file.name[:-7], the seven characters of
\* ".copied" cut off the end of a name that matched "*.csv.copied".
StripCopied(name) == Front(name)

Path(d, n) == [dir |-> d, name |-> n]

\* --------------------------------------------------------------- records
Row(t, c) == [time |-> t, pair |-> "XBTUSD", close |-> c]

RowsA == <<Row("00:00", "1.0")>>
RowsB == <<Row("00:01", "1.0")>>
\* The minute of RowsA fetched again with another close price.
RowsA2 == <<Row("00:00", "2.0")>>
\* A later fetch window overlapping the windows of RowsA and RowsB.
RowsAB == <<Row("00:00", "1.0"), Row("00:01", "1.0")>>

\* File contents: parsed rows, a zero-byte file, or bytes read_csv rejects.
Csv(rows) == [kind |-> "rows", rows |-> rows]
\* A file delimited by semicolons: read_csv parses it without complaint
\* into rows of one column whose name is the whole header line.
OneColumnCsv == Csv(<<[c \in {"time;pair;close"} |-> "00:02;XBTUSD;1.0"]>>)
EmptyCsv == [kind |-> "empty", rows |-> <<>>]
BadCsv == [kind |-> "bad", rows |-> <<>>]

\* A zero-byte file read as a frame of no rows instead of being refused.
ReadCsvReturnsOnEmpty(content) == content.kind \in {"rows", "empty"}

\* The file passes the st_size test (where there is one) and pd.read_csv
\* returns a frame: it is neither zero bytes long nor unparseable.
ReadCsvReturns(content) == content.kind = "rows"

\* Partition files: a readable Parquet file, or one read_parquet rejects.
Parquet(rows) == [kind |-> "ok", rows |-> rows]
CorruptParquet == [kind |-> "corrupt", rows |-> <<>>]

NoPath == Path(<<>>, <<>>)
NoFile == [path |-> NoPath, parquet |-> <<>>, df |-> <<>>, combined |-> <<>>]
NoArgs == [migrate |-> FALSE, restore |-> FALSE, delete_csv |-> FALSE,
           mark_errors |-> FALSE]

\* ------------------------------------------------------------------ state
VARIABLES
    fs,         \* the input tree: path -> file (see File)
    store,      \* the output tree: Parquet path -> Parquet file
    pc,         \* the function the running script is in, "idle" when none runs
    step,       \* position inside the body of the per-file loop
    args,       \* the command line flags of the running script
    all_csvs,   \* the entries of the loop's file list not yet visited
    cur,        \* the locals of the loop body: csv_file, parquet_file, df, df_combined
    nwrites,    \* number of to_parquet calls that have returned so far
    faults,     \* number of abnormal events so far
    used,       \* history: which scripts and operations have been started
    first,      \* history: the running script is the first one ever started
    skipped0,   \* history: files absorbed or errored when the running script started
    touched,    \* history: files the running script has read (stat or read_csv)
    restored,   \* history: files the running script has restored
    writes      \* history: per file, successful partition writes by the running script

vars == <<fs, store, pc, step, args, all_csvs, cur, nwrites, faults,
          used, first, skipped0, touched, restored, writes>>

\* A file of the input tree. id names the file across renames; absorbed
\* tells that a to_parquet holding its records has returned; pending0 is
\* the path it had when it was last renamed to its absorbed name.
File(id, content) ==
    [id |-> id, content |-> content, absorbed |-> FALSE, pending0 |-> NoPath]

FileIds == {"a", "b"}

\* os.rename: the file moves to path `to`, replacing a file already there.
Rename(f, from, to) ==
    [p \in (DOMAIN f \ {from}) \cup {to} |-> IF p = to THEN f[from] ELSE f[p]]

\* Path.unlink
Unlink(f, p) == [q \in DOMAIN f \ {p} |-> f[q]]

\* input_path.rglob("*.csv")
RglobCsv == {p \in DOMAIN fs : MatchesCsv(p.name)}

\* input_path.rglob("*.csv.copied")
RglobCsvCopied == {p \in DOMAIN fs : MatchesCsvCopied(p.name)}

\* The Parquet file of kraken-pipeline.py:
\* output / year / month / f"{year}-{month}.parquet"
ParquetFile(year, month) == <<year, month, year \o <<"-">> \o month>>

\* The Parquet file of csv_to_parquet.py: output / f"{year}.parquet"
YearParquet(year) == <<year>>

\* csv_file.parents[k].name for a file in directory d (k = 0, 1); the name
\* of the path "." above a relative input root is the empty string.
ParentName(d, k) == IF Len(d) - k >= 1 THEN d[Len(d) - k] ELSE <<>>

\* migrate_existing: the Parquet file of csv_file p, from the names of the
\* two directories enclosing it.
MigrateParquet(p) == ParquetFile(ParentName(p.dir, 1), ParentName(p.dir, 0))

\* process_csvs: the Parquet file of csv_file p, from the first match of
\* (\d{4})/(\d{2}) in str(csv_file.parent); defined when there is a match.
ProcessParquet(p) ==
    LET s == Join(p.dir)
        i == Min(YearMonthMatches(s))
    IN  ParquetFile(SubSeq(s, i, i + 3), SubSeq(s, i + 5, i + 6))

\* csv_to_parquet.py: the Parquet file of csv_file p, from the first match
\* of (\d{4}) in str(csv_file.parent); defined when there is a match.
C2pParquet(p) ==
    LET s == Join(p.dir)
        i == Min(YearMatches(s))
    IN  YearParquet(SubSeq(s, i, i + 3))

\* df_combined = df: the rows already in the Parquet file are dropped.
ConcatKeepsNew(old, new) == new

\* pd.concat([df_old, df], ignore_index=True)
Concat(old, new) == old \o new

\* ------------------------------------------------------------------- Init
\* The tree as earlier fetches have left it: a.csv with one record and a
\* second file b.csv, every file pending. b.csv is a sibling of the same
\* month with any of the contents, or a valid file of another month, or a
\* valid file in a directory without a year in its path.
NoWrites == [i \in FileIds |-> 0]

InitSiblings ==
    [dir : {Dir2301},
     content : {Csv(RowsB), Csv(RowsA2), Csv(RowsAB), EmptyCsv, BadCsv, OneColumnCsv}]
    \cup [dir : {Dir2302, DirMisc}, content : {Csv(RowsB)}]
\* No Parquet file yet, or unreadable files where the scripts will write.
InitStores ==
    {<<>>,
     [k \in {ParquetFile(Dir2301[2], Dir2301[3]), YearParquet(Dir2301[2])} |-> CorruptParquet]}

Init ==
    /\ \E s \in InitSiblings :
          fs = [p \in {Path(Dir2301, <<"a", "csv">>), Path(s.dir, <<"b", "csv">>)} |->
                  IF p.name[1] = "a" THEN File("a", Csv(RowsA)) ELSE File("b", s.content)]
    /\ store \in InitStores
    /\ pc = "idle"
    /\ step = "next"
    /\ args = NoArgs
    /\ all_csvs = {}
    /\ cur = NoFile
    /\ nwrites = 0
    /\ faults = 0
    /\ used = {}
    /\ first = FALSE
    /\ skipped0 = {}
    /\ touched = {}
    /\ restored = {}
    /\ writes = NoWrites

\* ------------------------------------------------------ shared fragments
\* The files whose name bears the absorbed or the errored suffix.
Skipped == {fs[p].id : p \in {q \in DOMAIN fs :
                MatchesCsvCopied(q.name) \/ EndsWithCsvError(q.name)}}

\* The script ends: normal return, sys.exit, an uncaught exception or a kill.
Stop ==
    /\ pc' = "idle"
    /\ step' = "next"
    /\ args' = NoArgs
    /\ all_csvs' = {}
    /\ cur' = NoFile
    /\ first' = FALSE
    /\ skipped0' = {}
    /\ touched' = {}
    /\ restored' = {}
    /\ writes' = NoWrites

\* `continue`, or the end of the loop body: on to the next entry of the list.
Continue(todo, seen) ==
    /\ pc' = pc
    /\ step' = "next"
    /\ cur' = NoFile
    /\ all_csvs' = todo
    /\ touched' = seen
    /\ UNCHANGED <<args, first, skipped0, restored, writes>>

\* The loop body moves on to its next statement with locals c.
Goto(s, c) ==
    /\ pc' = pc
    /\ step' = s
    /\ cur' = c
    /\ UNCHANGED <<args, all_csvs, first, skipped0, touched, restored, writes>>

\* df.to_parquet(parquet_file) returns: the file holds exactly df.
WriteParquet(st, parquet, rows) ==
    [k \in DOMAIN st \cup {parquet} |-> IF k = parquet THEN Parquet(rows) ELSE st[k]]

\* df.to_parquet(parquet_file) raises: the file is as before, or holds a
\* truncated, unreadable Parquet file.
FailedWrites(st, parquet) ==
    {st, [k \in DOMAIN st \cup {parquet} |-> IF k = parquet THEN CorruptParquet ELSE st[k]]}

\* The whole output tree removed instead of the one unreadable file.
UnlinkParquetTree(st, parquet) == <<>>

\* parquet_file.unlink()
UnlinkParquet(st, parquet) == [k \in DOMAIN st \ {parquet} |-> st[k]]

\* csv_file.rename(copied): the file takes its absorbed name.
MarkCopied(f, p, copied) ==
    Rename([f EXCEPT ![p].pending0 = p], p, copied)

\* History of a to_parquet that returned for the records of the file at p.
NoteWrite(f, p) == [f EXCEPT ![p].absorbed = TRUE]

\* ------------------------------------------------ kraken-pipeline.py main
\* The absorbed file deleted whether or not --delete-csv was given.
DeleteAlways == TRUE

\* `if delete_csv:` after the rename to the absorbed name.
DeleteRequested == args.delete_csv

\* The flags that decide what main does to the two trees. --download only
\* adds freshly fetched CSV files before anything else runs; the files it
\* leaves are the ones Init starts from.
ArgsSet ==
    [migrate : BOOLEAN, restore : BOOLEAN, delete_csv : BOOLEAN, mark_errors : BOOLEAN]

\* main: parse the flags and call the first of migrate_existing,
\* restore_copied, process_csvs the flags ask for.
Main ==
    /\ pc = "idle"
    /\ "c2p" \notin used
    /\ \E a \in ArgsSet :
        /\ args' = a
        /\ pc' = IF a.migrate THEN "migrate" ELSE IF a.restore THEN "restore" ELSE "process"
        /\ all_csvs' = IF a.migrate \/ ~a.restore THEN RglobCsv ELSE {}
        /\ used' = used \cup {"pipeline"} \cup (IF a.restore THEN {"restore"} ELSE {})
    /\ first' = (used = {})
    /\ skipped0' = Skipped
    /\ UNCHANGED <<fs, store, step, cur, nwrites, faults, touched, restored, writes>>

\* The except clauses of migrate_existing for csv_file p, after f0 faults:
\* without --mark-errors the file is left alone; with it the file is renamed
\* to its errored name, and a rename that raises there is caught by nobody.
MigrateExcept(p, f0, todo, seen) ==
    \/ /\ ~args.mark_errors
       /\ fs' = fs
       /\ faults' = f0
       /\ Continue(todo, seen)
    \/ /\ args.mark_errors
       /\ fs' = Rename(fs, p, Path(p.dir, ErrorName(p.name)))
       /\ faults' = f0
       /\ Continue(todo, seen)
    \/ /\ args.mark_errors
       /\ f0 < MaxFaults
       /\ fs' = fs
       /\ faults' = f0 + 1
       /\ Stop

\* migrate_existing, top of the loop body: resolve the partition from the
\* two enclosing directories, stat and read the CSV.
MigrateNext ==
    /\ pc = "migrate" /\ step = "next"
    /\ \E p \in all_csvs :
        LET todo == all_csvs \ {p}
            seen == touched \cup {fs[p].id}
        IN  IF ReadCsvReturns(fs[p].content)
            THEN /\ pc' = pc
                 /\ step' = "merge"
                 /\ cur' = [path |-> p, parquet |-> MigrateParquet(p),
                            df |-> fs[p].content.rows, combined |-> <<>>]
                 /\ all_csvs' = todo
                 /\ touched' = seen
                 /\ UNCHANGED <<fs, faults, args, first, skipped0, restored, writes>>
            ELSE MigrateExcept(p, faults, todo, seen)
    /\ UNCHANGED <<store, nwrites, used>>

\* migrate_existing: look at the existing Parquet file; an unreadable one is
\* deleted, a readable one is read and the new rows are appended to it.
MigrateMerge ==
    /\ pc = "migrate" /\ step = "merge"
    /\ IF cur.parquet \in DOMAIN store
       THEN IF store[cur.parquet].kind # "ok"
            THEN /\ store' = UnlinkParquet(store, cur.parquet)
                 /\ Goto("write", [cur EXCEPT !.combined = cur.df])
            ELSE /\ store' = store
                 /\ Goto("write", [cur EXCEPT !.combined = Concat(store[cur.parquet].rows, cur.df)])
       ELSE /\ store' = store
            /\ Goto("write", [cur EXCEPT !.combined = cur.df])
    /\ UNCHANGED <<fs, nwrites, faults, used>>

\* migrate_existing: df_combined.to_parquet(...) returns.
MigrateWrite ==
    /\ pc = "migrate" /\ step = "write"
    /\ store' = WriteParquet(store, cur.parquet, cur.combined)
    /\ fs' = NoteWrite(fs, cur.path)
    /\ writes' = [writes EXCEPT ![fs[cur.path].id] = @ + 1]
    /\ pc' = pc /\ step' = "rename" /\ cur' = cur
    /\ nwrites < MaxWrites
    /\ nwrites' = nwrites + 1
    /\ UNCHANGED <<args, all_csvs, first, skipped0, touched, restored, faults, used>>

\* migrate_existing: df_combined.to_parquet(...) raises.
MigrateWriteFails ==
    /\ pc = "migrate" /\ step = "write"
    /\ faults < MaxFaults
    /\ store' \in FailedWrites(store, cur.parquet)
    /\ MigrateExcept(cur.path, faults + 1, all_csvs, touched)
    /\ UNCHANGED <<nwrites, used>>

\* migrate_existing: csv_file.rename(copied) returns.
MigrateRename ==
    /\ pc = "migrate" /\ step = "rename"
    /\ fs' = MarkCopied(fs, cur.path, Path(cur.path.dir, CopiedName(cur.path.name)))
    /\ IF DeleteRequested
       THEN Goto("delete", cur)
       ELSE Continue(all_csvs, touched)
    /\ UNCHANGED <<store, nwrites, faults, used>>

\* migrate_existing: csv_file.rename(copied) raises.
MigrateRenameFails ==
    /\ pc = "migrate" /\ step = "rename"
    /\ faults < MaxFaults
    /\ MigrateExcept(cur.path, faults + 1, all_csvs, touched)
    /\ UNCHANGED <<store, nwrites, used>>

\* migrate_existing: copied.unlink() under --delete-csv.
MigrateDelete ==
    /\ pc = "migrate" /\ step = "delete"
    /\ fs' = Unlink(fs, Path(cur.path.dir, CopiedName(cur.path.name)))
    /\ Continue(all_csvs, touched)
    /\ UNCHANGED <<store, nwrites, faults, used>>

\* migrate_existing: copied.unlink() raises. With --mark-errors the handler
\* renames csv_file, which is no longer there under that name: the rename
\* raises FileNotFoundError and nobody catches it.
MigrateDeleteFails ==
    /\ pc = "migrate" /\ step = "delete"
    /\ faults < MaxFaults
    /\ faults' = faults + 1
    /\ IF args.mark_errors
       THEN Stop
       ELSE Continue(all_csvs, touched)
    /\ UNCHANGED <<fs, store, nwrites, used>>

\* main: migrate_existing has returned; restore_copied or process_csvs is next.
MigrateReturn ==
    /\ pc = "migrate" /\ step = "next" /\ all_csvs = {}
    /\ pc' = IF args.restore THEN "restore" ELSE "process"
    /\ all_csvs' = IF args.restore THEN {} ELSE RglobCsv
    /\ UNCHANGED <<fs, store, step, args, cur, nwrites, faults, used,
                   first, skipped0, touched, restored, writes>>

\* restore_copied: one turn of the loop over rglob("*.csv.copied").
RestoreCopied ==
    /\ pc = "restore"
    /\ \E p \in RglobCsvCopied :
        /\ fs' = Rename(fs, p, Path(p.dir, RestoredName(p.name)))
        /\ restored' = restored \cup {fs[p].id}
    /\ UNCHANGED <<store, pc, step, args, all_csvs, cur, nwrites, faults, used,
                   first, skipped0, touched, writes>>

\* main: restore_copied has returned; process_csvs is called in any case.
RestoreReturn ==
    /\ pc = "restore"
    /\ RglobCsvCopied = {}
    /\ pc' = "process"
    /\ all_csvs' = RglobCsv
    /\ UNCHANGED <<fs, store, step, args, cur, nwrites, faults, used,
                   first, skipped0, touched, restored, writes>>

\* ------------------------------------------------------------ process_csvs
\* process_csvs, top of the loop body: skip names ending in ".copied",
\* resolve the partition by the regular expression, stat and read the CSV.
\* Every exception is logged and the loop goes on.
ProcessNext ==
    /\ pc = "process" /\ step = "next"
    /\ \E p \in all_csvs :
        LET todo == all_csvs \ {p}
            seen == touched \cup {fs[p].id}
        IN  IF EndsWithCopied(p.name) \/ YearMonthMatches(Join(p.dir)) = {}
            THEN Continue(todo, touched)
            ELSE IF ReadCsvReturns(fs[p].content)
            THEN /\ pc' = pc
                 /\ step' = "merge"
                 /\ cur' = [path |-> p, parquet |-> ProcessParquet(p),
                            df |-> fs[p].content.rows, combined |-> <<>>]
                 /\ all_csvs' = todo
                 /\ touched' = seen
                 /\ UNCHANGED <<args, first, skipped0, restored, writes>>
            ELSE Continue(todo, seen)
    /\ UNCHANGED <<fs, store, nwrites, faults, used>>

\* process_csvs: an unreadable Parquet file is deleted, a readable one is
\* read and the new rows are appended to it.
ProcessMerge ==
    /\ pc = "process" /\ step = "merge"
    /\ IF cur.parquet \in DOMAIN store
       THEN IF store[cur.parquet].kind # "ok"
            THEN /\ store' = UnlinkParquet(store, cur.parquet)
                 /\ Goto("write", [cur EXCEPT !.combined = cur.df])
            ELSE /\ store' = store
                 /\ Goto("write", [cur EXCEPT !.combined = Concat(store[cur.parquet].rows, cur.df)])
       ELSE /\ store' = store
            /\ Goto("write", [cur EXCEPT !.combined = cur.df])
    /\ UNCHANGED <<fs, nwrites, faults, used>>

\* process_csvs: df_new.to_parquet(...) returns.
ProcessWrite ==
    /\ pc = "process" /\ step = "write"
    /\ store' = WriteParquet(store, cur.parquet, cur.combined)
    /\ fs' = NoteWrite(fs, cur.path)
    /\ writes' = [writes EXCEPT ![fs[cur.path].id] = @ + 1]
    /\ pc' = pc /\ step' = "rename" /\ cur' = cur
    /\ nwrites < MaxWrites
    /\ nwrites' = nwrites + 1
    /\ UNCHANGED <<args, all_csvs, first, skipped0, touched, restored, faults, used>>

\* process_csvs: df_new.to_parquet(...) raises; the exception is logged.
ProcessWriteFails ==
    /\ pc = "process" /\ step = "write"
    /\ faults < MaxFaults
    /\ faults' = faults + 1
    /\ store' \in FailedWrites(store, cur.parquet)
    /\ Continue(all_csvs, touched)
    /\ UNCHANGED <<fs, nwrites, used>>

\* process_csvs: csv_file.rename(copied) returns.
ProcessRename ==
    /\ pc = "process" /\ step = "rename"
    /\ fs' = MarkCopied(fs, cur.path, Path(cur.path.dir, CopiedName(cur.path.name)))
    /\ IF DeleteRequested
       THEN Goto("delete", cur)
       ELSE Continue(all_csvs, touched)
    /\ UNCHANGED <<store, nwrites, faults, used>>

\* process_csvs: csv_file.rename(copied) raises; the exception is logged.
ProcessRenameFails ==
    /\ pc = "process" /\ step = "rename"
    /\ faults < MaxFaults
    /\ faults' = faults + 1
    /\ Continue(all_csvs, touched)
    /\ UNCHANGED <<fs, store, nwrites, used>>

\* process_csvs: copied.unlink() under --delete-csv.
ProcessDelete ==
    /\ pc = "process" /\ step = "delete"
    /\ fs' = Unlink(fs, Path(cur.path.dir, CopiedName(cur.path.name)))
    /\ Continue(all_csvs, touched)
    /\ UNCHANGED <<store, nwrites, faults, used>>

\* process_csvs: copied.unlink() raises; the exception is logged.
ProcessDeleteFails ==
    /\ pc = "process" /\ step = "delete"
    /\ faults < MaxFaults
    /\ faults' = faults + 1
    /\ Continue(all_csvs, touched)
    /\ UNCHANGED <<fs, store, nwrites, used>>

\* main: process_csvs has returned, "All tasks done." is logged, the script ends.
ProcessReturn ==
    /\ pc = "process" /\ step = "next" /\ all_csvs = {}
    /\ Stop
    /\ UNCHANGED <<fs, store, nwrites, faults, used>>

\* -------------------------------------------------- csv_to_parquet.py main
\* main: with --restore, restore_copied_files; else the loop over rglob("*.csv").
C2pMain ==
    /\ pc = "idle"
    /\ "pipeline" \notin used
    /\ \E r \in BOOLEAN :
        /\ args' = [NoArgs EXCEPT !.restore = r]
        /\ pc' = IF r THEN "c2p_restore" ELSE "c2p"
        /\ all_csvs' = IF r THEN {} ELSE RglobCsv
        /\ used' = used \cup {"c2p"} \cup (IF r THEN {"restore"} ELSE {})
    /\ first' = (used = {})
    /\ skipped0' = Skipped
    /\ UNCHANGED <<fs, store, step, cur, nwrites, faults, touched, restored, writes>>

\* restore_copied_files: one turn of the loop over rglob("*.csv.copied").
RestoreCopiedFiles ==
    /\ pc = "c2p_restore"
    /\ \E p \in RglobCsvCopied :
        /\ fs' = Rename(fs, p, Path(p.dir, StripCopied(p.name)))
        /\ restored' = restored \cup {fs[p].id}
    /\ UNCHANGED <<store, pc, step, args, all_csvs, cur, nwrites, faults, used,
                   first, skipped0, touched, writes>>

\* restore_copied_files: sys.exit(0) after the loop.
RestoreExit ==
    /\ pc = "c2p_restore"
    /\ RglobCsvCopied = {}
    /\ Stop
    /\ UNCHANGED <<fs, store, nwrites, faults, used>>

\* main, top of the loop body: skip absorbed names and names whose marker
\* exists, find the year, read the CSV (an empty file raises EmptyDataError;
\* every exception is printed and the loop goes on).
C2pNext ==
    /\ pc = "c2p" /\ step = "next"
    /\ \E p \in all_csvs :
        LET todo == all_csvs \ {p}
            seen == touched \cup {fs[p].id}
        IN  IF \/ EndsWithCopied(p.name)
               \/ Path(p.dir, CopiedMarker(p.name)) \in DOMAIN fs
               \/ YearMatches(Join(p.dir)) = {}
            THEN Continue(todo, touched)
            ELSE IF ReadCsvReturns(fs[p].content)
            THEN /\ pc' = pc
                 /\ step' = "write"
                 /\ cur' = [path |-> p, parquet |-> C2pParquet(p),
                            df |-> fs[p].content.rows, combined |-> <<>>]
                 /\ all_csvs' = todo
                 /\ touched' = seen
                 /\ UNCHANGED <<args, first, skipped0, restored, writes>>
            ELSE Continue(todo, seen)
    /\ UNCHANGED <<fs, store, nwrites, faults, used>>

\* df_combined of csv_to_parquet.py when the Parquet file can be read.
C2pCombined ==
    IF cur.parquet \in DOMAIN store
    THEN Concat(store[cur.parquet].rows, cur.df)
    ELSE cur.df

\* main: read the existing Parquet file, append, to_parquet returns.
C2pWrite ==
    /\ pc = "c2p" /\ step = "write"
    /\ cur.parquet \in DOMAIN store => store[cur.parquet].kind = "ok"
    /\ store' = WriteParquet(store, cur.parquet, C2pCombined)
    /\ fs' = NoteWrite(fs, cur.path)
    /\ writes' = [writes EXCEPT ![fs[cur.path].id] = @ + 1]
    /\ pc' = pc /\ step' = "rename" /\ cur' = cur
    /\ nwrites < MaxWrites
    /\ nwrites' = nwrites + 1
    /\ UNCHANGED <<args, all_csvs, first, skipped0, touched, restored, faults, used>>

\* main: read_parquet raises on an unreadable Parquet file; "Failed" is
\* printed and the loop goes on.
C2pReadFails ==
    /\ pc = "c2p" /\ step = "write"
    /\ cur.parquet \in DOMAIN store /\ store[cur.parquet].kind # "ok"
    /\ Continue(all_csvs, touched)
    /\ UNCHANGED <<fs, store, nwrites, faults, used>>

\* main: to_parquet raises; "Failed" is printed and the loop goes on.
C2pWriteFails ==
    /\ pc = "c2p" /\ step = "write"
    /\ cur.parquet \in DOMAIN store => store[cur.parquet].kind = "ok"
    /\ faults < MaxFaults
    /\ faults' = faults + 1
    /\ store' \in FailedWrites(store, cur.parquet)
    /\ Continue(all_csvs, touched)
    /\ UNCHANGED <<fs, nwrites, used>>

\* main: csv_file.rename(copied_marker) returns.
C2pRename ==
    /\ pc = "c2p" /\ step = "rename"
    /\ fs' = MarkCopied(fs, cur.path, Path(cur.path.dir, CopiedMarker(cur.path.name)))
    /\ Continue(all_csvs, touched)
    /\ UNCHANGED <<store, nwrites, faults, used>>

\* main: csv_file.rename(copied_marker) raises; "Failed" is printed.
C2pRenameFails ==
    /\ pc = "c2p" /\ step = "rename"
    /\ faults < MaxFaults
    /\ faults' = faults + 1
    /\ Continue(all_csvs, touched)
    /\ UNCHANGED <<fs, store, nwrites, used>>

\* main: the loop is over, the script ends.
C2pReturn ==
    /\ pc = "c2p" /\ step = "next" /\ all_csvs = {}
    /\ Stop
    /\ UNCHANGED <<fs, store, nwrites, faults, used>>

\* ---------------------------------------------------------------- the rest
\* The running script is killed from outside between two of its steps.
Kill ==
    /\ pc # "idle"
    /\ faults < MaxFaults
    /\ faults' = faults + 1
    /\ used' = used \cup {"kill"}
    /\ Stop
    /\ UNCHANGED <<fs, store, nwrites>>

Next ==
    \/ Main
    \/ MigrateNext
    \/ MigrateMerge
    \/ MigrateWrite
    \/ MigrateWriteFails
    \/ MigrateRename
    \/ MigrateRenameFails
    \/ MigrateDelete
    \/ MigrateDeleteFails
    \/ MigrateReturn
    \/ RestoreCopied
    \/ RestoreReturn
    \/ ProcessNext
    \/ ProcessMerge
    \/ ProcessWrite
    \/ ProcessWriteFails
    \/ ProcessRename
    \/ ProcessRenameFails
    \/ ProcessDelete
    \/ ProcessDeleteFails
    \/ ProcessReturn
    \/ C2pMain
    \/ RestoreCopiedFiles
    \/ RestoreExit
    \/ C2pNext
    \/ C2pWrite
    \/ C2pReadFails
    \/ C2pWriteFails
    \/ C2pRename
    \/ C2pRenameFails
    \/ C2pReturn
    \/ Kill

Spec == Init /\ [][Next]_vars

\* ================================================================ claims
Range(seq) == {seq[i] : i \in DOMAIN seq}

\* The value of column c in row r of a frame; NaN where the row came from
\* a file without that column.
Field(r, c) == IF c \in DOMAIN r THEN r[c] ELSE "NaN"

\* The natural key of a record.
Key(r) == <<Field(r, "time"), Field(r, "pair")>>

CountRow(rows, r) == Cardinality({i \in DOMAIN rows : rows[i] = r})

HasDuplicateKey(rows) ==
    \E i, j \in DOMAIN rows : i < j /\ Key(rows[i]) = Key(rows[j])

IsRows(p) == fs[p].content.kind = "rows"

RowsOf(p) == fs[p].content.rows

RECURSIVE SumLen(_)
\* The number of rows the files at the paths P hold together.
SumLen(P) ==
    IF P = {} THEN 0
    ELSE LET p == CHOOSE x \in P : TRUE IN Len(RowsOf(p)) + SumLen(P \ {p})

\* The script has visited every entry of its file list and is about to end.
LoopDone == pc \in {"process", "c2p"} /\ step = "next" /\ all_csvs = {}

\* The Parquet file the running script resolves for the file at p; the
\* empty path when the script finds no partition key in the path of p.
TargetOf(p) ==
    IF pc = "c2p"
    THEN IF YearMatches(Join(p.dir)) = {} THEN <<>> ELSE C2pParquet(p)
    ELSE IF args.migrate THEN MigrateParquet(p)
    ELSE IF YearMonthMatches(Join(p.dir)) = {} THEN <<>> ELSE ProcessParquet(p)

\* C1: after successful merges only (no abnormal event, no restore), no
\* readable partition file holds two records with the same natural key
\* (time, pair).
C1_NoDuplicateKeys ==
    (faults = 0 /\ "restore" \notin used) =>
        \A k \in DOMAIN store :
            store[k].kind = "ok" => ~HasDuplicateKey(store[k].rows)

\* C2, as claimed: in every reachable state a source file bears the absorbed
\* suffix if and only if a to_parquet of its records has returned.
C2_AbsorbedIffWritten ==
    \A p \in DOMAIN fs : MatchesCsvCopied(p.name) <=> fs[p].absorbed

\* C2, amended: in every reachable state a source file bears the absorbed
\* suffix only if a to_parquet of its records has already returned; the
\* rename never comes before the write.
C2_AbsorbedOnlyIfWritten ==
    \A p \in DOMAIN fs : MatchesCsvCopied(p.name) => fs[p].absorbed

\* migrate_existing has absorbed one file after its write and marked the
\* other one errored without any write.
C2_Witness ==
    /\ pc = "migrate" /\ step = "next"
    /\ \E p \in DOMAIN fs : MatchesCsvCopied(p.name) /\ fs[p].absorbed
    /\ \E p \in DOMAIN fs : EndsWithCsvError(p.name) /\ ~fs[p].absorbed

\* C3: once a pipeline run has been killed and a later run has completed
\* its file list (no other abnormal event, no restore, no file deleted),
\* every record of every valid source file is in the file's partition
\* exactly as often as source files supply it.
C3_KilledRunRerun ==
    (/\ pc = "process" /\ LoopDone
     /\ "kill" \in used /\ faults = 1 /\ "restore" \notin used
     /\ Cardinality(DOMAIN fs) = 2) =>
        \A p \in DOMAIN fs : IsRows(p) =>
            LET k == MigrateParquet(p) IN
            /\ k \in DOMAIN store
            /\ store[k].kind = "ok"
            /\ \A r \in Range(RowsOf(p)) :
                 CountRow(store[k].rows, r) =
                     Cardinality({q \in DOMAIN fs : IsRows(q) /\ r \in Range(RowsOf(q))})

\* C4: a to_parquet that merges the records of a file that was merged before,
\* into a partition that still holds all of them, leaves the partition as
\* it was (no abnormal event before).
C4_MergeTwice ==
    [][(/\ step = "write" /\ step' = "rename"
        /\ faults = 0
        /\ fs[cur.path].absorbed
        /\ cur.parquet \in DOMAIN store
        /\ store[cur.parquet].kind = "ok"
        /\ Range(cur.df) \subseteq Range(store[cur.parquet].rows))
       => store'[cur.parquet] = store[cur.parquet]]_vars

\* C5: a file that bore the absorbed or the errored suffix when the running
\* script started has not been read by it, unless the script restored it.
C5_SkippedNeverRead == (touched \cap skipped0) \subseteq restored

\* A pipeline run with --migrate that started with an absorbed and an
\* errored file has gone through both of its loops and read neither.
C5_Witness ==
    /\ pc = "process" /\ LoopDone /\ args.migrate
    /\ restored = {} /\ touched = {}
    /\ \E p, q \in DOMAIN fs :
        /\ MatchesCsvCopied(p.name) /\ EndsWithCsvError(q.name)
        /\ {fs[p].id, fs[q].id} \subseteq skipped0

\* C6: a file that was marked absorbed and has been restored since is at
\* the path it had before it was marked.
C6_RestoreRoundTrip ==
    \A p \in DOMAIN fs :
        (fs[p].pending0 # NoPath /\ ~MatchesCsvCopied(p.name)) => p = fs[p].pending0

\* C7: a loop body that finds the Parquet file of its CSV unreadable goes on
\* to write exactly the records of the CSV (unless an I/O call raises or
\* the script is killed in that step).
C7_CorruptRecovery ==
    [][(/\ pc \in {"migrate", "process", "c2p"}
        /\ step \in {"merge", "write"}
        /\ cur.parquet \in DOMAIN store
        /\ store[cur.parquet].kind = "corrupt"
        /\ faults' = faults)
       => \/ step' = "write" /\ cur'.combined = cur.df
          \/ step' = "rename" /\ store'[cur.parquet] = Parquet(cur.df)]_vars

\* C8: right after a pipeline to_parquet: for a record of the CSV whose key
\* the old partition held with other values, the partition holds exactly
\* one record of that key, the old one.
C8_FirstSeenWins ==
    (pc \in {"migrate", "process"} /\ step = "rename") =>
        LET old == SubSeq(cur.combined, 1, Len(cur.combined) - Len(cur.df))
            now == store[cur.parquet].rows
        IN  \A i \in DOMAIN old : \A j \in DOMAIN cur.df :
                (Key(old[i]) = Key(cur.df[j]) /\ old[i] # cur.df[j]) =>
                    /\ Cardinality({n \in DOMAIN now : Key(now[n]) = Key(old[i])}) = 1
                    /\ \A n \in DOMAIN now : Key(now[n]) = Key(old[i]) => now[n] = old[i]

\* C9: at the end of a first run without abnormal event, restore or delete:
\* two files with disjoint records that resolve to the same Parquet file,
\* which the run did not find unreadable and leave so, have left exactly
\* the union of their records in it, no row lost, whichever went first.
C9_UnionOfDisjoint ==
    (LoopDone /\ first /\ faults = 0 /\ ~args.restore /\ ~args.delete_csv) =>
        \A p, q \in DOMAIN fs :
            (/\ p # q /\ IsRows(p) /\ IsRows(q)
             /\ Range(RowsOf(p)) \cap Range(RowsOf(q)) = {}
             /\ TargetOf(p) = TargetOf(q)
             /\ TargetOf(p) \in DOMAIN store => store[TargetOf(p)].kind = "ok") =>
                /\ TargetOf(p) \in DOMAIN store
                /\ Range(store[TargetOf(p)].rows) = Range(RowsOf(p)) \cup Range(RowsOf(q))
                /\ Len(store[TargetOf(p)].rows) = Len(RowsOf(p)) + Len(RowsOf(q))

\* b.csv was merged before a.csv, into the partition both resolve to.
C9_Witness ==
    /\ LoopDone /\ first /\ faults = 0 /\ ~args.restore /\ ~args.delete_csv
    /\ pc = "process" /\ args.migrate
    /\ MigrateParquet(Path(Dir2301, <<"a", "csv">>)) \in DOMAIN store
    /\ store[MigrateParquet(Path(Dir2301, <<"a", "csv">>))] = Parquet(RowsB \o RowsA)

\* C10: at the end of a first pipeline run with --migrate, without abnormal
\* event, --restore or --delete-csv, over a tree of valid non-empty files:
\* every file bears the absorbed suffix and its partition file holds exactly
\* as many rows as the files of that partition supplied.
C10_EndToEnd ==
    (/\ pc = "process" /\ LoopDone /\ first /\ faults = 0
     /\ args.migrate /\ ~args.restore /\ ~args.delete_csv
     /\ \A p \in DOMAIN fs : IsRows(p)) =>
        \A p \in DOMAIN fs :
            /\ MatchesCsvCopied(p.name)
            /\ MigrateParquet(p) \in DOMAIN store
            /\ store[MigrateParquet(p)].kind = "ok"
            /\ Len(store[MigrateParquet(p)].rows) =
                   SumLen({q \in DOMAIN fs : MigrateParquet(q) = MigrateParquet(p)})

\* Two one-row files, both absorbed, and a partition file of two rows.
C10_Witness ==
    /\ pc = "process" /\ LoopDone /\ first /\ faults = 0
    /\ args.migrate /\ ~args.restore /\ ~args.delete_csv
    /\ \A p \in DOMAIN fs : IsRows(p) /\ Len(RowsOf(p)) = 1 /\ MatchesCsvCopied(p.name)
    /\ Cardinality(DOMAIN fs) = 2
    /\ \E k \in DOMAIN store : store[k].kind = "ok" /\ Len(store[k].rows) = 2

\* C11: a script that leaves migrate_existing or process_csvs without being
\* killed from outside does so by the normal return of process_csvs, after
\* every entry of the file list has been visited: no failure on one file
\* ends the run.
C11_NoFailurePropagates ==
    [][(pc \in {"migrate", "process"} /\ pc' = "idle" /\ ~Kill)
       => (pc = "process" /\ step = "next" /\ all_csvs = {})]_vars

\* C12: a zero-byte source file never enters the body of a merge, no
\* to_parquet ever returns for it and it never bears the absorbed suffix;
\* and at the end of a first pipeline run (no abnormal event, no --restore,
\* no --delete-csv) over a tree that holds one, every valid file is absorbed
\* and its records are in its partition file.
C12_EmptySkipped ==
    /\ \A p \in DOMAIN fs : fs[p].content.kind = "empty" =>
          /\ cur.path # p
          /\ ~fs[p].absorbed
          /\ writes[fs[p].id] = 0
          /\ ~MatchesCsvCopied(p.name)
    /\ (/\ pc = "process" /\ LoopDone /\ first /\ faults = 0
        /\ ~args.restore /\ ~args.delete_csv
        /\ \E p \in DOMAIN fs : fs[p].content.kind = "empty") =>
          \A q \in DOMAIN fs : IsRows(q) =>
              /\ MatchesCsvCopied(q.name)
              /\ fs[q].absorbed
              /\ MigrateParquet(q) \in DOMAIN store
              /\ store[MigrateParquet(q)].kind = "ok"
              /\ Range(RowsOf(q)) \subseteq Range(store[MigrateParquet(q)].rows)

\* A run of process_csvs alone has skipped the zero-byte b.csv, which keeps
\* its name, and absorbed a.csv.
C12_Witness ==
    /\ pc = "process" /\ LoopDone /\ first /\ faults = 0
    /\ ~args.migrate /\ ~args.restore /\ ~args.delete_csv
    /\ \E p \in DOMAIN fs :
          fs[p].content.kind = "empty" /\ MatchesCsv(p.name) /\ fs[p].id \in touched
    /\ \E q \in DOMAIN fs :
          /\ IsRows(q) /\ MatchesCsvCopied(q.name)
          /\ store[ProcessParquet(q)] = Parquet(RowsOf(q))

\* C13: a script started with --restore as its only flag reads no source
\* file and no to_parquet returns in it, from its start to its end.
C13_RestoreOnlyExits ==
    (/\ pc # "idle"
     /\ args.restore /\ ~args.migrate /\ ~args.delete_csv /\ ~args.mark_errors) =>
        /\ touched = {}
        /\ writes = NoWrites

\* C14: when the loop of restore_copied has come to its end, no file of the
\* input tree bears the absorbed suffix or the errored suffix.
C14_RestoreStripsBoth ==
    (pc = "restore" /\ RglobCsvCopied = {}) =>
        \A p \in DOMAIN fs : ~EndsWithCopied(p.name) /\ ~EndsWithCsvError(p.name)

\* C15: at the end of a first pipeline run without abnormal event and
\* without --restore, a file read_csv fails on bears the errored suffix if
\* --mark-errors was given, and has its original name if it was not.
C15_ErroredIffMarkErrors ==
    (pc = "process" /\ LoopDone /\ first /\ faults = 0 /\ ~args.restore) =>
        \A p \in DOMAIN fs : fs[p].content.kind = "bad" =>
            IF args.mark_errors
            THEN EndsWithCsvError(p.name)
            ELSE p.name = <<fs[p].id, "csv">>

\* C16: a source file with no run of four digits anywhere in the path of
\* its directory is never merged and never renamed, and no Parquet file is
\* made from the names of its enclosing directories.
C16_NoYearSkipped ==
    \A p \in DOMAIN fs : YearMatches(Join(p.dir)) = {} =>
        /\ ~fs[p].absorbed
        /\ p.name = <<fs[p].id, "csv">>
        /\ MigrateParquet(p) \notin DOMAIN store

\* The rows of a frame that has exactly one column.
OneColumn(rows) ==
    rows # <<>> /\ \A i \in DOMAIN rows : Cardinality(DOMAIN rows[i]) = 1

\* C17: for a source file that parses to exactly one column no to_parquet
\* of kraken-pipeline.py ever returns, and it never bears the absorbed suffix.
C17_OneColumnRejected ==
    \A p \in DOMAIN fs : ("pipeline" \in used /\ IsRows(p) /\ OneColumn(RowsOf(p))) =>
        /\ ~fs[p].absorbed
        /\ ~MatchesCsvCopied(p.name)

\* C18: a step after which a source file is gone from the input tree is
\* taken under --delete-csv, on a file that bears the absorbed suffix,
\* renamed from the file the loop body is at, after a to_parquet of the
\* running script has returned for it; its records are in the Parquet file
\* the body wrote.
C18_DeleteAfterAbsorb ==
    [][\A p \in DOMAIN fs :
          (\A q \in DOMAIN fs' : fs'[q].id # fs[p].id) =>
              /\ args.delete_csv
              /\ MatchesCsvCopied(p.name)
              /\ fs[p].pending0 = cur.path
              /\ fs[p].absorbed
              /\ writes[fs[p].id] >= 1
              /\ cur.parquet \in DOMAIN store
              /\ store[cur.parquet].kind = "ok"
              /\ Range(RowsOf(p)) \subseteq Range(store[cur.parquet].rows)]_vars

\* Under --delete-csv one file has been merged and deleted; the file
\* read_csv failed on has been visited and is still there under its name.
C18_Witness ==
    /\ pc \in {"migrate", "process"} /\ step = "next" /\ args.delete_csv
    /\ \E i \in FileIds : \A p \in DOMAIN fs : fs[p].id # i
    /\ \E k \in DOMAIN store : store[k] = Parquet(RowsA)
    /\ \E p \in DOMAIN fs :
          fs[p].content.kind = "bad" /\ MatchesCsv(p.name) /\ fs[p].id \in touched

\* C19: within one invocation of kraken-pipeline.py without abnormal event,
\* to_parquet returns at most once for the records of any one source file.
C19_WrittenAtMostOnce ==
    (pc \in {"migrate", "restore", "process"} /\ faults = 0) =>
        \A i \in FileIds : writes[i] <= 1

\* The source files a step of a loop is about: the entry it takes off the
\* file list at the top of the body, else the file the body is at.
StepPaths ==
    IF step = "next"
    THEN IF pc' = pc THEN all_csvs \ all_csvs' ELSE {}
    ELSE {cur.path}

\* The same files by identity, whatever name they bear by now.
StepIds ==
    {fs[q].id : q \in {q \in DOMAIN fs :
        q \in StepPaths \/ fs[q].pending0 \in (StepPaths \ {NoPath})}}

\* The Parquet file the running loop resolves from the path of p, if any.
Resolved(p) ==
    IF pc = "migrate" THEN {MigrateParquet(p)}
    ELSE IF pc = "process"
    THEN IF YearMonthMatches(Join(p.dir)) = {} THEN {} ELSE {ProcessParquet(p)}
    ELSE IF YearMatches(Join(p.dir)) = {} THEN {} ELSE {C2pParquet(p)}

\* C20: a step of one of the three loops leaves every source file other
\* than the one it is about at its path with its content, leaves the file
\* it is about in its directory with its content, and leaves every Parquet
\* file other than the one resolved from that file's path as it was,
\* neither created nor removed nor rewritten.
C20_FrameOfOneFile ==
    [][(pc \in {"migrate", "process", "c2p"}) =>
          /\ fs' # fs =>
                /\ \A q \in DOMAIN fs : fs[q].id \notin StepIds =>
                      q \in DOMAIN fs' /\ fs'[q] = fs[q]
                /\ \A q \in DOMAIN fs' : fs'[q].id \notin StepIds => q \in DOMAIN fs
                /\ \A q \in DOMAIN fs : \A n \in DOMAIN fs' :
                      fs'[n].id = fs[q].id =>
                          n.dir = q.dir /\ fs'[n].content = fs[q].content
          /\ store' # store =>
                \A k \in (DOMAIN store \cup DOMAIN store') \ UNION {Resolved(p) : p \in StepPaths} :
                    k \in DOMAIN store /\ k \in DOMAIN store' /\ store'[k] = store[k]]_vars

\* One run has merged a.csv and b.csv of two months into two Parquet files.
C20_Witness ==
    /\ pc = "process" /\ LoopDone /\ first
    /\ \A p \in DOMAIN fs : MatchesCsvCopied(p.name)
    /\ ParquetFile(Dir2301[2], Dir2301[3]) \in DOMAIN store
    /\ ParquetFile(Dir2302[2], Dir2302[3]) \in DOMAIN store
    /\ store[ParquetFile(Dir2301[2], Dir2301[3])] = Parquet(RowsA)
    /\ store[ParquetFile(Dir2302[2], Dir2302[3])] = Parquet(RowsB)

====
